---- MODULE Spec2Model ----
(***************************************************************************)
(* Azure VM Creator (script/create_vm.py): main, VMConfig and the          *)
(* AzureVMCreator provisioning walk, against a provider whose calls may     *)
(* succeed, raise an AzureError or be interrupted.                          *)
(***************************************************************************)
EXTENDS Integers, Sequences, FiniteSets, TLC

\* ------------------------------------------------------------------ bounds
MaxClock == 2
MaxRuns == 2

\* ------------------------------------------------------- program constants
MaxVmNameLen == 64
DefaultSshPort == 22
AllowPriorityBase == 1000
DenyPriority == 4096

\* ------------------------------------------------------------- characters
AsciiLetters ==
  {"a", "b", "c", "d", "e", "f", "g", "h", "i", "j", "k", "l", "m", "n", "o",
   "p", "q", "r", "s", "t", "u", "v", "w", "x", "y", "z", "A", "Z"}

AsciiDigits == {"0", "1", "2", "3", "4", "5", "6", "7", "8", "9"}

\* letters outside ASCII for which str.isalnum() is also true
OtherLetters == {"é", "ñ"}

\* str.replace(ch, ''): drop every occurrence of ch
RECURSIVE replace(_, _)
replace(s, ch) ==
  IF s = <<>> THEN <<>>
  ELSE IF Head(s) = ch THEN replace(Tail(s), ch)
       ELSE <<Head(s)>> \o replace(Tail(s), ch)

\* str.isalnum(): non-empty and every character a letter or a digit
isalnum(s) ==
  /\ Len(s) >= 1
  /\ \A i \in 1..Len(s) : s[i] \in AsciiLetters \cup AsciiDigits \cup OtherLetters

\* str(n) of a non-negative integer: its decimal digits
DigitChars == <<"0", "1", "2", "3", "4", "5", "6", "7", "8", "9">>

RECURSIVE str(_)
str(n) ==
  IF n < 10 THEN <<DigitChars[n + 1]>>
  ELSE str(n \div 10) \o <<DigitChars[(n % 10) + 1]>>

\* datetime.isoformat() of the instant t: distinct instants, distinct strings
IsoStrings ==
  <<"2025-06-06T10:00:01", "2025-06-06T10:00:02", "2025-06-06T10:00:03",
    "2025-06-06T10:00:04", "2025-06-06T10:00:05", "2025-06-06T10:00:06">>

isoformat(t) == IsoStrings[t]

\* ---------------------------------------------------------- configuration
EmptyMap == [k \in {} |-> ""]

NoTags == [present |-> FALSE, map |-> EmptyMap]

DefaultTags ==
  [present |-> TRUE,
   map |-> [k \in {"Environment", "CreatedBy", "Project"} |->
              CASE k = "Environment" -> "Production"
                [] k = "CreatedBy" -> "AzureVMCreator"
                [] OTHER -> "Infrastructure"]]

DefaultVmName == <<"a", "z", "u", "r", "e", "-", "v", "m", "-", "p", "r", "o", "d">>

\* VMConfig._default_config: no admin_password key
default_config ==
  [vm_name |-> DefaultVmName,
   resource_group |-> "rg-azure-vm",
   location |-> "East US",
   admin_username |-> "azureuser",
   admin_password |-> <<>>,
   ssh_port |-> DefaultSshPort,
   sources |-> [present |-> TRUE, list |-> <<"*">>],
   tags |-> DefaultTags]

\* VMConfig.validate, the loop over required_fields: the first field whose
\* value is missing or empty, "" when there is none
MissingField(cfg) ==
  IF cfg.vm_name = <<>> THEN "vm_name"
  ELSE IF cfg.resource_group = "" THEN "resource_group"
  ELSE IF cfg.location = "" THEN "location"
  ELSE IF cfg.admin_username = "" THEN "admin_username"
  ELSE ""

\* VMConfig.validate, the VM-name test: 1..64 characters that are
\* alphanumeric once '-' and '_' are removed
VmNameOk(vm_name) ==
  /\ 1 <= Len(vm_name)
  /\ Len(vm_name) <= MaxVmNameLen
  /\ isalnum(replace(replace(vm_name, "-"), "_"))

\* validate without its VM-name test
validate_required_fields_only(cfg) == MissingField(cfg) = ""

validate(cfg) == MissingField(cfg) = "" /\ VmNameOk(cfg.vm_name)

\* ------------------------------------------------------------------ inputs
Pw(n) == [i \in 1..n |-> "x"]

MinPasswordLen == 8

Passwords == {<<>>, Pw(MinPasswordLen - 1), Pw(MinPasswordLen)}

WebName == <<"w", "e", "b", "0", "1">>

Names ==
  {<<>>, WebName, <<"w", "_", "1">>, <<"-">>, <<"_", "-">>, <<"w", "!">>,
   <<"é">>, <<"w", " ">>}

Sources == {"*", "10.0.0.0/8"}

MaxSources == 2

SourceLists == UNION {[1..n -> Sources] : n \in 0..MaxSources}

SourceChoices ==
  {[present |-> FALSE, list |-> <<>>]}
    \cup {[present |-> TRUE, list |-> l] : l \in SourceLists}

Ports == {DefaultSshPort, 2222}

TagChoices ==
  {NoTags,
   [present |-> TRUE, map |-> EmptyMap],
   DefaultTags,
   [present |-> TRUE,
    map |-> [k \in {"Environment", "CreatedAt"} |->
               IF k = "Environment" THEN "Dev" ELSE "2020-01-01T00:00:00"]]}

\* what json.load can return from the --config file
FileConfigs ==
  {[default_config EXCEPT !.admin_password = Pw(MinPasswordLen),
                          !.sources = s, !.ssh_port = p] :
     s \in SourceChoices, p \in Ports}
    \cup {[default_config EXCEPT !.admin_password = pw, !.tags = t] :
            pw \in Passwords, t \in TagChoices}
    \cup {[default_config EXCEPT !.vm_name = n] : n \in Names}
    \cup {[default_config EXCEPT ![f] = ""] :
            f \in {"resource_group", "location", "admin_username"}}

\* argparse.Namespace; an option that was not given is empty / FALSE
NoArgs ==
  [interactive |-> FALSE, has_file |-> FALSE, file |-> default_config,
   vm_name |-> <<>>, admin_password |-> <<>>, dry_run |-> FALSE,
   generate_config |-> FALSE]

Argvs ==
  {[NoArgs EXCEPT !.interactive = TRUE]}
    \cup {[NoArgs EXCEPT !.has_file = TRUE, !.file = f, !.dry_run = d] :
            f \in FileConfigs, d \in BOOLEAN}
    \cup {[NoArgs EXCEPT !.vm_name = n, !.admin_password = pw, !.dry_run = d,
                         !.generate_config = g] :
            n \in {<<>>, WebName, <<"w", "!">>}, pw \in Passwords,
            d \in BOOLEAN, g \in BOOLEAN}

\* ------------------------------------------------------------------- state
Kinds ==
  <<"ResourceGroup", "VirtualNetwork", "Subnet", "PublicIP",
    "NetworkSecurityGroup", "NetworkInterface", "VirtualMachine">>

KindSet == {Kinds[i] : i \in 1..Len(Kinds)}

VARIABLES
  argv,            \* sys.argv as parsed by parse_arguments
  subscription,    \* --subscription-id or AZURE_SUBSCRIPTION_ID is set
  pc,              \* where main is
  config,          \* VMConfig.config
  output,          \* log records and console prints produced so far
  generated,       \* generate_config_file has written a file
  exit,            \* how the process ended
  clients,         \* AzureVMCreator.__init__ has built the Azure clients
  provider,        \* kinds of resource the provider holds under our names
  creates,         \* create_or_update calls the provider accepted, per kind
  calls,           \* calls made against the resource clients in this run
  handles,         \* subnet, public_ip, nsg, nic, vm of create_complete_vm
  result,          \* what create_complete_vm returned
  vm_info,         \* what get_vm_info returned
  clock,           \* datetime.now()
  runs,            \* how many times the program has been started
  handle_states,   \* provisioning_state of the resource a creation returns, per kind
  confirm          \* the answer main read at its confirmation prompt

vars ==
  <<argv, subscription, pc, config, output, generated, exit, clients,
    provider, creates, calls, handles, result, vm_info, clock, runs,
    handle_states, confirm>>

NoHandles == [k \in KindSet |-> <<>>]

NoInfo == [filled |-> FALSE, public_ip |-> ""]

\* main has not come to its confirmation prompt
NotAsked == "(no input read)"

Init ==
  /\ argv \in Argvs
  /\ subscription \in BOOLEAN
  /\ pc = "start"
  /\ config = default_config
  /\ output = {}
  /\ generated = FALSE
  /\ exit = "running"
  /\ clients = FALSE
  /\ provider \in {{}, {"ResourceGroup"}}
  /\ creates = [k \in KindSet |-> 0]
  /\ calls = <<>>
  /\ handles = NoHandles
  /\ result = "unset"
  /\ vm_info = NoInfo
  /\ clock = 1
  /\ runs = 1
  /\ handle_states = [k \in KindSet |-> "Succeeded"]
  /\ confirm = NotAsked

\* ------------------------------------------------------------------ output
\* a record: the stream, the level, the message, the resource kind the
\* message names and the values formatted into it
LogNode(level, msg, node, fields) ==
  [stream |-> "log", level |-> level, msg |-> msg, node |-> node, fields |-> fields]

Log(level, msg, fields) == LogNode(level, msg, "", fields)

Say(msg, fields) ==
  [stream |-> "console", level |-> "", msg |-> msg, node |-> "", fields |-> fields]

\* the keys json.dumps(config.config) prints with their values
DumpFields(cfg) ==
  {"vm_name", "resource_group", "location", "admin_username", "security", "tags"}
    \cup (IF cfg.admin_password # <<>> THEN {"admin_password"} ELSE {})

inputVars == <<argv, subscription, runs, handle_states, confirm>>

walkVars == <<clients, provider, creates, calls, handles, result, vm_info, clock>>

\* str.strip(): drop leading and trailing blanks
RECURSIVE lstrip(_)
lstrip(s) == IF s # <<>> /\ Head(s) = " " THEN lstrip(Tail(s)) ELSE s

RECURSIVE rstrip(_)
rstrip(s) ==
  IF s # <<>> /\ s[Len(s)] = " " THEN rstrip(SubSeq(s, 1, Len(s) - 1)) ELSE s

strip(s) == rstrip(lstrip(s))

\* ---------------------------------------------------- interactive menu mode
InMenu == pc = "start" /\ argv.interactive

\* choice 1 without main's test of the password it read
menu_create_default_without_test ==
  /\ InMenu
  /\ \E password \in Passwords :
       /\ config' = [default_config EXCEPT !.admin_password = password]
       /\ pc' = "validate"
       /\ UNCHANGED <<output, exit>>
  /\ UNCHANGED <<inputVars, walkVars, generated>>

\* choice 1, then main's password prompt for the default configuration
menu_create_default ==
  /\ InMenu
  /\ \E password \in Passwords :
       IF password = <<>>
       THEN /\ output' = output \cup {Say("Contraseña requerida", {})}
            /\ pc' = "exit"
            /\ exit' = "exit1"
            /\ config' = default_config
       ELSE /\ config' = [default_config EXCEPT !.admin_password = password]
            /\ pc' = "validate"
            /\ UNCHANGED <<output, exit>>
  /\ UNCHANGED <<inputVars, walkVars, generated>>

\* interactive_vm_creation: each prompt loops until its input is accepted
NameAccepted(vm_name) ==
  /\ vm_name # <<>>
  /\ Len(vm_name) <= MaxVmNameLen
  /\ isalnum(replace(replace(vm_name, "-"), "_"))

\* (the location prompt is answered with Enter: East US)
interactive_vm_creation(typed_name, rg_name, admin_user, password) ==
  [vm_name |-> strip(typed_name),
   resource_group |-> IF rg_name # "" THEN rg_name ELSE "rg-{vm_name}",
   location |-> "East US",
   admin_username |-> IF admin_user # "" THEN admin_user ELSE "azureuser",
   admin_password |-> password]

\* choice 2, then main's config.config.update(custom_config)
menu_create_custom ==
  /\ InMenu
  /\ \E typed_name \in Names, rg_name \in {"", "rg-web"},
        admin_user \in {"", "webapp"}, password \in Passwords :
       /\ NameAccepted(strip(typed_name))
       /\ Len(password) >= MinPasswordLen
       /\ LET custom == interactive_vm_creation(typed_name, rg_name, admin_user, password)
          IN config' = [default_config EXCEPT
                          !.vm_name = custom.vm_name,
                          !.resource_group = custom.resource_group,
                          !.location = custom.location,
                          !.admin_username = custom.admin_username,
                          !.admin_password = custom.admin_password]
  /\ pc' = "validate"
  /\ UNCHANGED <<inputVars, walkVars, generated, output, exit>>

\* choice 3: generate_config_file, then back to the menu
menu_generate_config ==
  /\ InMenu
  /\ generated' = TRUE
  /\ output' = output \cup {Say("Archivo de configuración generado", {})}
  /\ UNCHANGED <<inputVars, walkVars, pc, config, exit>>

\* choice 4 printing the default configuration and going on to create it
menu_dry_run_then_create ==
  /\ InMenu
  /\ config' = default_config
  /\ output' = output \cup {Log("INFO", "MODO DRY-RUN - Configuración por defecto", {}),
                            Say("json.dumps(config.config)", DumpFields(default_config))}
  /\ pc' = "validate"
  /\ UNCHANGED <<inputVars, walkVars, generated, exit>>

\* choice 4: the default configuration is printed and main returns
menu_dry_run ==
  /\ InMenu
  /\ config' = default_config
  /\ output' = output \cup {Log("INFO", "MODO DRY-RUN - Configuración por defecto", {}),
                            Say("json.dumps(config.config)", DumpFields(default_config))}
  /\ pc' = "exit"
  /\ exit' = "return"
  /\ UNCHANGED <<inputVars, walkVars, generated>>

\* choices 5 and 6: show_examples, show_help, then back to the menu
menu_show ==
  /\ InMenu
  /\ \E text \in {"EJEMPLOS DE USO", "AYUDA Y DOCUMENTACIÓN"} :
       output' = output \cup {Say(text, {})}
  /\ UNCHANGED <<inputVars, walkVars, pc, config, generated, exit>>

\* choice 7
menu_exit ==
  /\ InMenu
  /\ output' = output \cup {Say("¡Gracias por usar Azure VM Creator!", {})}
  /\ pc' = "exit"
  /\ exit' = "exit0"
  /\ UNCHANGED <<inputVars, walkVars, config, generated>>

\* ------------------------------------------------------- command-line mode
\* VMConfig(args.config) with the command-line overrides applied
LoadedConfig(a) ==
  LET loaded == IF a.has_file THEN a.file ELSE default_config
      named == IF a.vm_name # <<>> THEN [loaded EXCEPT !.vm_name = a.vm_name] ELSE loaded
  IN IF a.admin_password # <<>>
     THEN [named EXCEPT !.admin_password = a.admin_password]
     ELSE named

main_generate_config ==
  /\ pc = "start"
  /\ ~argv.interactive
  /\ argv.generate_config
  /\ generated' = TRUE
  /\ output' = output \cup {Say("Archivo de configuración generado", {})}
  /\ pc' = "exit"
  /\ exit' = "return"
  /\ UNCHANGED <<inputVars, walkVars, config>>

\* load the configuration, apply the arguments, prompt for a password that
\* neither the arguments nor the file give, and stop here under --dry-run
main_cli ==
  /\ pc = "start"
  /\ ~argv.interactive
  /\ ~argv.generate_config
  /\ LET loaded == LoadedConfig(argv)
     IN \E typed \in Passwords :
          /\ loaded.admin_password # <<>> => typed = <<>>
          /\ LET password == IF loaded.admin_password # <<>>
                             THEN loaded.admin_password ELSE typed
                 cfg == [loaded EXCEPT !.admin_password = password]
             IN IF password = <<>>
                THEN /\ config' = loaded
                     /\ output' = output \cup {Say("Contraseña requerida", {})}
                     /\ pc' = "exit"
                     /\ exit' = "exit1"
                ELSE IF argv.dry_run
                THEN /\ config' = cfg
                     /\ output' = output \cup
                          {Log("INFO", "MODO DRY-RUN - Configuración a usar", {}),
                           Say("json.dumps(config.config)", DumpFields(cfg))}
                     /\ pc' = "exit"
                     /\ exit' = "return"
                ELSE /\ config' = cfg
                     /\ pc' = "validate"
                     /\ UNCHANGED <<output, exit>>
  /\ UNCHANGED <<inputVars, walkVars, generated>>

\* ------------------------------------------- validation up to the creator
SummaryFields == {"vm_name", "resource_group", "location", "vm_size", "admin_username"}

\* config.validate(), the subscription id, the printed summary
main_validate ==
  /\ pc = "validate"
  /\ LET banner == Log("INFO", "Azure VM Creator v2.0.0", {})
     IN IF MissingField(config) # ""
        THEN /\ output' = output \cup
                  {banner, Log("ERROR", "Campo requerido faltante", {MissingField(config)}),
                   Log("ERROR", "Configuración inválida", {})}
             /\ pc' = "exit"
             /\ exit' = "exit1"
        ELSE IF ~validate(config)
        THEN /\ output' = output \cup
                  {banner, Log("ERROR", "Nombre de VM inválido", {}),
                   Log("ERROR", "Configuración inválida", {})}
             /\ pc' = "exit"
             /\ exit' = "exit1"
        ELSE IF ~subscription
        THEN /\ output' = output \cup
                  {banner, Log("INFO", "Configuración validada exitosamente", {}),
                   Say("Azure Subscription ID requerido", {})}
             /\ pc' = "exit"
             /\ exit' = "exit1"
        ELSE /\ output' = output \cup
                  {banner, Log("INFO", "Configuración validada exitosamente", {}),
                   Log("INFO", "Subscription ID", {"subscription_id"}),
                   Say("RESUMEN DE CONFIGURACIÓN", SummaryFields)}
             /\ pc' = IF argv.interactive THEN "confirm" ELSE "construct"
             /\ exit' = exit
  /\ UNCHANGED <<inputVars, walkVars, config, generated>>

\* the prompt "(s/N)" with Enter taken as a yes
Affirmative_or_enter == {"s", "si", "sí", "y", "yes", ""}

Affirmative == {"s", "si", "sí", "y", "yes"}

\* what the user types at the prompt, stripped and in lower case: a yes, the
\* Enter key, two ways of saying no and a word that is not in the list
ConfirmAnswers == {"s", "", "n", "no", "ok"}

\* the confirmation prompt of the interactive mode
main_confirm ==
  /\ pc = "confirm"
  /\ \E answer \in ConfirmAnswers :
       /\ confirm' = answer
       /\ IF answer \in Affirmative
          THEN /\ pc' = "construct"
               /\ UNCHANGED <<output, exit>>
          ELSE /\ output' = output \cup {Say("Operación cancelada por el usuario", {})}
               /\ pc' = "exit"
               /\ exit' = "exit0"
  /\ UNCHANGED <<argv, subscription, runs, handle_states, walkVars, config, generated>>

\* ------------------------------------------------------- the resource calls
NoRefs == [subnet |-> <<>>, public_ip |-> <<>>, nsg |-> <<>>, nic |-> <<>>]

\* the id the provider gives the resource of a kind: its path under the
\* subscription, the group and the configured name
ResourceId(kind) == <<"/subscriptions/resourceGroups/providers", kind>>

Ticks == {clock} \cup {t \in {clock + 1} : t <= MaxClock}

Failures == {"AzureError", "Exception", "KeyboardInterrupt"}

\* _add_tags that leaves a CreatedAt it finds in the dictionary
add_tags_keeping_created_at(tags, now) ==
  [k \in DOMAIN tags.map \cup {"CreatedAt"} |->
     IF k \in DOMAIN tags.map THEN tags.map[k] ELSE isoformat(now)]

\* AzureVMCreator._add_tags, the dictionary it puts in params['tags']: the
\* stored tags (or a fresh {}) with CreatedAt set to now
add_tags(tags, now) ==
  [k \in DOMAIN tags.map \cup {"CreatedAt"} |->
     IF k = "CreatedAt" THEN isoformat(now) ELSE tags.map[k]]

\* AzureVMCreator._add_tags, its effect on the stored configuration: the
\* dictionary it writes CreatedAt into is config['tags'] itself when the
\* key is there
add_tags_config(cfg, now) ==
  IF cfg.tags.present
  THEN [cfg EXCEPT !.tags = [present |-> TRUE, map |-> add_tags(cfg.tags, now)]]
  ELSE cfg

\* the allow rule numbered from the 1-based position
AllowRule_one_based(i, source, ssh_port) ==
  [name |-> <<"SSH_">> \o str(i + 1),
   protocol |-> "Tcp",
   source_port_range |-> "*",
   destination_port_range |-> str(ssh_port),
   source_address_prefix |-> source,
   destination_address_prefix |-> "*",
   access |-> "Allow",
   priority |-> AllowPriorityBase + i + 1,
   direction |-> "Inbound"]

\* the rule list of create_network_security_group
AllowRule(i, source, ssh_port) ==
  [name |-> <<"SSH_">> \o str(i + 1),
   protocol |-> "Tcp",
   source_port_range |-> "*",
   destination_port_range |-> str(ssh_port),
   source_address_prefix |-> source,
   destination_address_prefix |-> "*",
   access |-> "Allow",
   priority |-> AllowPriorityBase + i,
   direction |-> "Inbound"]

DenyRule ==
  [name |-> <<"DenyAllInbound">>,
   protocol |-> "*",
   source_port_range |-> "*",
   destination_port_range |-> <<"*">>,
   source_address_prefix |-> "*",
   destination_address_prefix |-> "*",
   access |-> "Deny",
   priority |-> DenyPriority,
   direction |-> "Inbound"]

allowed_sources(cfg) == IF cfg.sources.present THEN cfg.sources.list ELSE <<"*">>

security_rules(cfg) ==
  [j \in 1..Len(allowed_sources(cfg)) |->
     AllowRule(j - 1, allowed_sources(cfg)[j], cfg.ssh_port)] \o <<DenyRule>>

\* a creation started with begin_create_or_update whose poller is handed on
\* without .result(): the operation is still running when the next step starts
Call_without_result(op, kind, tags, at, rules, refs, secret, outcome) ==
  [op |-> op, kind |-> kind, tags |-> tags, at |-> at, rules |-> rules,
   refs |-> refs, secret |-> secret, existed |-> kind \in provider,
   outcome |-> IF op = "create_or_update" /\ kind # "ResourceGroup" /\ outcome = "ok"
               THEN "in flight" ELSE outcome,
   provisioning_state |-> ""]

\* a call as the provider sees it: the operation, the kind, the parameters
\* (tags and the instant they were computed at, security rules, referenced
\* ids, admin password), whether the provider already held the resource,
\* and how the call ended
Call(op, kind, tags, at, rules, refs, secret, outcome) ==
  [op |-> op, kind |-> kind, tags |-> tags, at |-> at, rules |-> rules,
   refs |-> refs, secret |-> secret, existed |-> kind \in provider,
   outcome |-> outcome, provisioning_state |-> ""]

\* the resource a creation call returns carries its provisioning_state
Handle(call) ==
  [call EXCEPT !.provisioning_state =
     IF call.outcome = "ok" THEN handle_states[call.kind] ELSE ""]

Get(kind, outcome) == Call("get", kind, NoTags, 0, <<>>, NoRefs, <<>>, outcome)

\* the error output without the record of the method that failed
ErrorOutput_without_node(kind, outcome) ==
  IF outcome \in {"AzureError", "Exception"}
  THEN {Log("ERROR", "Error en la creación de la máquina virtual", {"cause"})}
  ELSE {Say("Proceso interrumpido por el usuario", {}),
        Log("WARNING", "Proceso interrumpido por el usuario", {})}

\* what a creation method and its callers log when the call raises
ErrorOutput(kind, outcome) ==
  CASE outcome = "AzureError" ->
         {LogNode("ERROR", "Error al crear", kind, {"cause"}),
          Log("ERROR", "Error en la creación de la máquina virtual", {"cause"})}
    [] outcome = "Exception" ->
         {Log("ERROR", "Error en la creación de la máquina virtual", {"cause"})}
    [] OTHER ->
         {Say("Proceso interrumpido por el usuario", {}),
          Log("WARNING", "Proceso interrumpido por el usuario", {})}

\* a creation method that logs the error and does not re-raise it: the walk
\* goes on to the next step
Raised_and_swallowed(kind, outcome) ==
  /\ output' = output \cup {LogNode("INFO", "Creando", kind, {"name"}),
                            LogNode("ERROR", "Error al crear", kind, {"cause"})}
  /\ pc' = IF kind = "VirtualMachine" THEN "info"
           ELSE Kinds[(CHOOSE i \in 1..Len(Kinds) : Kinds[i] = kind) + 1]
  /\ UNCHANGED <<provider, creates, handles, result, exit>>

\* create_complete_vm catching AzureError only: any other Exception of a
\* creation call reaches the except clause of main
Raised_past_create_complete_vm(kind, outcome) ==
  /\ IF outcome = "AzureError"
     THEN /\ output' = output \cup {LogNode("INFO", "Creando", kind, {"name"})}
                             \cup ErrorOutput(kind, outcome)
          /\ pc' = "report"
          /\ result' = "None"
          /\ UNCHANGED exit
     ELSE /\ output' = output \cup {LogNode("INFO", "Creando", kind, {"name"}),
                                    Say("Error inesperado", {"cause"}),
                                    Log("ERROR", "Error inesperado", {"cause"})}
          /\ pc' = "exit"
          /\ exit' = "exit1"
          /\ UNCHANGED result
  /\ UNCHANGED <<provider, creates, handles>>

\* create_complete_vm deleting, when a step raises, what the earlier steps of
\* the run created
Raised_with_rollback(kind, outcome) ==
  /\ output' = output \cup {LogNode("INFO", "Creando", kind, {"name"})}
                      \cup ErrorOutput(kind, outcome)
  /\ IF outcome = "KeyboardInterrupt"
     THEN /\ pc' = "exit"
          /\ exit' = "exit1"
          /\ UNCHANGED result
     ELSE /\ pc' = "report"
          /\ result' = "None"
          /\ UNCHANGED exit
  /\ provider' = provider \ {calls[i].kind : i \in {j \in 1..Len(calls) :
                   calls[j].op = "create_or_update" /\ calls[j].outcome = "ok"}}
  /\ UNCHANGED <<creates, handles>>

\* a creation call raised: the method logs and re-raises, create_complete_vm
\* turns an Exception into None, a KeyboardInterrupt ends main
Raised(kind, outcome) ==
  /\ output' = output \cup {LogNode("INFO", "Creando", kind, {"name"})}
                      \cup ErrorOutput(kind, outcome)
  /\ IF outcome = "KeyboardInterrupt"
     THEN /\ pc' = "exit"
          /\ exit' = "exit1"
          /\ UNCHANGED result
     ELSE /\ pc' = "report"
          /\ result' = "None"
          /\ UNCHANGED exit
  /\ UNCHANGED <<provider, creates, handles>>

\* a creation call returned the resource
Returned(kind, keep, next) ==
  /\ output' = output \cup {LogNode("INFO", "Creando", kind, {"name"}),
                            LogNode("INFO", "creado", kind, {"name"})}
  /\ provider' = provider \cup {kind}
  /\ creates' = [creates EXCEPT ![kind] = @ + 1]
  /\ handles' = IF keep THEN [handles EXCEPT ![kind] = ResourceId(kind)] ELSE handles
  /\ pc' = next
  /\ UNCHANGED <<result, exit>>

\* a creation method of AzureVMCreator whose parameters carry tags
TaggedCreate(kind, rules, refs, secret, keep, next) ==
  /\ \E now \in Ticks, outcome \in {"ok"} \cup Failures :
       /\ clock' = now
       /\ config' = add_tags_config(config, now)
       /\ calls' = Append(calls,
            Handle(Call("create_or_update", kind,
                        [present |-> TRUE, map |-> add_tags(config.tags, now)],
                        now, rules, refs, secret, outcome)))
       /\ IF outcome = "ok" THEN Returned(kind, keep, next) ELSE Raised(kind, outcome)
  /\ UNCHANGED <<inputVars, generated, clients, vm_info>>

\* ------------------------------------------------------- AzureVMCreator
\* __init__, then the first log line of create_complete_vm
AzureVMCreator_init ==
  /\ pc = "construct"
  /\ \E built \in BOOLEAN :
       IF built
       THEN /\ clients' = TRUE
            /\ output' = output \cup
                 {Log("INFO", "Clientes de Azure inicializados correctamente", {}),
                  Say("Iniciando creación de infraestructura Azure", {}),
                  Log("INFO", "Iniciando creación de infraestructura Azure", {})}
            /\ pc' = "ResourceGroup"
            /\ UNCHANGED exit
       ELSE /\ output' = output \cup
                 {Log("ERROR", "Error al inicializar clientes de Azure", {"cause"}),
                  Say("Error inesperado", {"cause"}),
                  Log("ERROR", "Error inesperado", {"cause"})}
            /\ pc' = "exit"
            /\ exit' = "exit1"
            /\ UNCHANGED clients
  /\ UNCHANGED <<inputVars, config, generated, provider, creates, calls,
                 handles, result, vm_info, clock>>

\* what resource_groups.get can do: return the group, say it is not there,
\* fail for another reason, or be interrupted
Probes ==
  (IF "ResourceGroup" \in provider THEN {"found"} ELSE {"ResourceNotFoundError"})
    \cup {"HttpResponseError", "KeyboardInterrupt"}

\* the bare except of create_resource_group: every probe that raised is
\* taken to mean that the group does not exist
ProbeSaysAbsent(probe) == probe # "found"

\* create_complete_vm taking a resource group that is already there to mean
\* that the infrastructure is in place
create_resource_group_found_means_done ==
  /\ pc = "ResourceGroup"
  /\ \E probe \in Probes :
       IF ~ProbeSaysAbsent(probe)
       THEN /\ calls' = Append(calls, Get("ResourceGroup", probe))
            /\ output' = output \cup
                 {LogNode("INFO", "Creando", "ResourceGroup", {"name", "location"}),
                  LogNode("INFO", "ya existe", "ResourceGroup", {"name"})}
            /\ pc' = "info"
            /\ UNCHANGED <<config, clock, provider, creates, handles, result, exit>>
       ELSE \E now \in Ticks, outcome \in {"ok"} \cup Failures :
              /\ clock' = now
              /\ config' = add_tags_config(config, now)
              /\ calls' = calls \o
                   <<Get("ResourceGroup", probe),
                     Handle(Call("create_or_update", "ResourceGroup",
                                 [present |-> TRUE, map |-> add_tags(config.tags, now)],
                                 now, <<>>, NoRefs, <<>>, outcome))>>
              /\ IF outcome = "ok"
                 THEN Returned("ResourceGroup", FALSE, "VirtualNetwork")
                 ELSE Raised("ResourceGroup", outcome)
  /\ UNCHANGED <<inputVars, generated, clients, vm_info>>

create_resource_group ==
  /\ pc = "ResourceGroup"
  /\ \E probe \in Probes :
       IF ~ProbeSaysAbsent(probe)
       THEN /\ calls' = Append(calls, Get("ResourceGroup", probe))
            /\ output' = output \cup
                 {LogNode("INFO", "Creando", "ResourceGroup", {"name", "location"}),
                  LogNode("INFO", "ya existe", "ResourceGroup", {"name"})}
            /\ pc' = "VirtualNetwork"
            /\ UNCHANGED <<config, clock, provider, creates, handles, result, exit>>
       ELSE \E now \in Ticks, outcome \in {"ok"} \cup Failures :
              /\ clock' = now
              /\ config' = add_tags_config(config, now)
              /\ calls' = calls \o
                   <<Get("ResourceGroup", probe),
                     Handle(Call("create_or_update", "ResourceGroup",
                                 [present |-> TRUE, map |-> add_tags(config.tags, now)],
                                 now, <<>>, NoRefs, <<>>, outcome))>>
              /\ IF outcome = "ok"
                 THEN Returned("ResourceGroup", FALSE, "VirtualNetwork")
                 ELSE Raised("ResourceGroup", outcome)
  /\ UNCHANGED <<inputVars, generated, clients, vm_info>>

\* create_virtual_network probing like create_resource_group: a network that
\* is already there is left alone
create_virtual_network_probing ==
  /\ pc = "VirtualNetwork"
  /\ IF "VirtualNetwork" \in provider
     THEN /\ calls' = Append(calls, Get("VirtualNetwork", "found"))
          /\ output' = output \cup
               {LogNode("INFO", "Creando", "VirtualNetwork", {"name"}),
                LogNode("INFO", "ya existe", "VirtualNetwork", {"name"})}
          /\ pc' = "Subnet"
          /\ UNCHANGED <<inputVars, generated, clients, vm_info, config, clock,
                         provider, creates, handles, result, exit>>
     ELSE TaggedCreate("VirtualNetwork", <<>>, NoRefs, <<>>, FALSE, "Subnet")

create_virtual_network ==
  /\ pc = "VirtualNetwork"
  /\ TaggedCreate("VirtualNetwork", <<>>, NoRefs, <<>>, FALSE, "Subnet")

\* the subnet parameters hold the address prefix only: _add_tags is not called
\* create_complete_vm going from the subnet straight to the security group
create_subnet_then_security_group ==
  /\ pc = "Subnet"
  /\ \E outcome \in {"ok"} \cup Failures :
       /\ calls' = Append(calls,
            Handle(Call("create_or_update", "Subnet", NoTags, 0, <<>>, NoRefs, <<>>,
                        outcome)))
       /\ IF outcome = "ok"
          THEN Returned("Subnet", TRUE, "NetworkSecurityGroup")
          ELSE Raised("Subnet", outcome)
  /\ UNCHANGED <<inputVars, generated, clients, vm_info, config, clock>>

create_subnet ==
  /\ pc = "Subnet"
  /\ \E outcome \in {"ok"} \cup Failures :
       /\ calls' = Append(calls,
            Handle(Call("create_or_update", "Subnet", NoTags, 0, <<>>, NoRefs, <<>>,
                        outcome)))
       /\ IF outcome = "ok"
          THEN Returned("Subnet", TRUE, "PublicIP")
          ELSE Raised("Subnet", outcome)
  /\ UNCHANGED <<inputVars, generated, clients, vm_info, config, clock>>

\* create_complete_vm going from the public IP straight to the interface
create_public_ip_then_interface ==
  /\ pc = "PublicIP"
  /\ TaggedCreate("PublicIP", <<>>, NoRefs, <<>>, TRUE, "NetworkInterface")

create_public_ip ==
  /\ pc = "PublicIP"
  /\ TaggedCreate("PublicIP", <<>>, NoRefs, <<>>, TRUE, "NetworkSecurityGroup")

create_network_security_group ==
  /\ pc = "NetworkSecurityGroup"
  /\ TaggedCreate("NetworkSecurityGroup", security_rules(config), NoRefs, <<>>,
                  TRUE, "NetworkInterface")

\* create_complete_vm passing nsg.id and public_ip.id in each other's place
nic_refs_swapped(h) ==
  [subnet |-> h["Subnet"], public_ip |-> h["NetworkSecurityGroup"],
   nsg |-> h["PublicIP"], nic |-> <<>>]

\* the ids create_complete_vm passes: subnet.id, public_ip.id, nsg.id
nic_refs(h) ==
  [subnet |-> h["Subnet"], public_ip |-> h["PublicIP"],
   nsg |-> h["NetworkSecurityGroup"], nic |-> <<>>]

create_network_interface ==
  /\ pc = "NetworkInterface"
  /\ TaggedCreate("NetworkInterface", <<>>, nic_refs(handles), <<>>,
                  TRUE, "VirtualMachine")

vm_refs(h) ==
  [subnet |-> <<>>, public_ip |-> <<>>, nsg |-> <<>>, nic |-> h["NetworkInterface"]]

create_virtual_machine ==
  /\ pc = "VirtualMachine"
  /\ TaggedCreate("VirtualMachine", <<>>, vm_refs(handles), config.admin_password,
                  TRUE, "info")

\* one placeholder for a lookup that failed and an address not yet allocated
public_ip_address_one_placeholder(lookup) ==
  IF lookup = "allocated" THEN "public_ip.ip_address" ELSE "No asignada"

\* the public_ip entry of the dictionary get_vm_info returns
public_ip_address(lookup) ==
  CASE lookup = "allocated" -> "public_ip.ip_address"
    [] lookup = "pending" -> "Pendiente"
    [] OTHER -> "No asignada"

CompletedOutput ==
  {Log("INFO", "Creación completada exitosamente", {}),
   Log("INFO", "VM Name / VM ID / Location / Size / Public IP / Admin User",
       {"vm_name", "vm_id", "location", "vm_size", "public_ip", "admin_username"})}

\* get_vm_info re-raising what the VM lookup raised: create_complete_vm
\* returns None
get_vm_info_reraising ==
  /\ pc = "info"
  /\ \E vm \in {"ok", "Exception"}, lookup \in {"allocated", "pending", "Exception"} :
       IF vm = "Exception"
       THEN /\ calls' = Append(calls, Get("VirtualMachine", vm))
            /\ output' = output \cup
                 {Log("ERROR", "Error al obtener información de la VM", {"cause"}),
                  Log("ERROR", "Error en la creación de la máquina virtual", {"cause"})}
            /\ vm_info' = NoInfo
            /\ result' = "None"
       ELSE /\ calls' = calls \o <<Get("VirtualMachine", vm), Get("PublicIP", lookup)>>
            /\ output' = output \cup CompletedOutput
            /\ vm_info' = [filled |-> TRUE, public_ip |-> public_ip_address(lookup)]
            /\ result' = "vm"
  /\ pc' = "report"
  /\ UNCHANGED <<inputVars, config, generated, clients, provider, creates,
                 handles, clock, exit>>

\* get_vm_info, then the closing log lines and the return of create_complete_vm
get_vm_info ==
  /\ pc = "info"
  /\ \E vm \in {"ok", "Exception", "KeyboardInterrupt"},
        lookup \in {"allocated", "pending", "Exception", "KeyboardInterrupt"} :
       CASE vm = "KeyboardInterrupt" ->
              /\ calls' = Append(calls, Get("VirtualMachine", vm))
              /\ output' = output \cup ErrorOutput("VirtualMachine", vm)
              /\ pc' = "exit"
              /\ exit' = "exit1"
              /\ UNCHANGED <<vm_info, result>>
         [] vm = "Exception" ->
              /\ calls' = Append(calls, Get("VirtualMachine", vm))
              /\ output' = output \cup CompletedOutput \cup
                   {Log("ERROR", "Error al obtener información de la VM", {"cause"})}
              /\ vm_info' = NoInfo
              /\ result' = "vm"
              /\ pc' = "report"
              /\ UNCHANGED exit
         [] OTHER ->
              /\ calls' = calls \o <<Get("VirtualMachine", vm), Get("PublicIP", lookup)>>
              /\ output' = output \cup CompletedOutput
              /\ vm_info' = [filled |-> TRUE, public_ip |-> public_ip_address(lookup)]
              /\ result' = "vm"
              /\ pc' = "report"
              /\ UNCHANGED exit
  /\ UNCHANGED <<inputVars, config, generated, clients, provider, creates,
                 handles, clock>>

\* main without the sys.exit(1) of the failure branch
main_report_without_exit_code ==
  /\ pc = "report"
  /\ output' = output \cup
       (IF result = "vm"
        THEN {Say("¡Máquina virtual creada exitosamente!", {}),
              Log("INFO", "Proceso completado exitosamente", {})}
        ELSE {Say("Error en la creación de la máquina virtual", {}),
              Log("ERROR", "El proceso falló", {})})
  /\ exit' = "return"
  /\ pc' = "exit"
  /\ UNCHANGED <<inputVars, walkVars, config, generated>>

\* main, after create_complete_vm has returned
main_report ==
  /\ pc = "report"
  /\ IF result = "vm"
     THEN /\ output' = output \cup
               {Say("¡Máquina virtual creada exitosamente!", {}),
                Log("INFO", "Proceso completado exitosamente", {})}
          /\ exit' = "return"
     ELSE /\ output' = output \cup
               {Say("Error en la creación de la máquina virtual", {}),
                Log("ERROR", "El proceso falló", {})}
          /\ exit' = "exit1"
  /\ pc' = "exit"
  /\ UNCHANGED <<inputVars, walkVars, config, generated>>

Next ==
  \/ menu_create_default
  \/ menu_create_custom
  \/ menu_generate_config
  \/ menu_dry_run
  \/ menu_show
  \/ menu_exit
  \/ main_generate_config
  \/ main_cli
  \/ main_validate
  \/ main_confirm
  \/ AzureVMCreator_init
  \/ create_resource_group
  \/ create_virtual_network
  \/ create_subnet
  \/ create_public_ip
  \/ create_network_security_group
  \/ create_network_interface
  \/ create_virtual_machine
  \/ get_vm_info
  \/ main_report

Spec == Init /\ [][Next]_vars

\* ---------------------------------------------- the program started again
\* the user runs the command line once more with the same arguments: a new
\* process, the same provider
Reinvoke ==
  /\ pc = "exit"
  /\ ~argv.interactive
  /\ runs < MaxRuns
  /\ runs' = runs + 1
  /\ pc' = "start"
  /\ config' = default_config
  /\ output' = {}
  /\ exit' = "running"
  /\ clients' = FALSE
  /\ calls' = <<>>
  /\ handles' = NoHandles
  /\ result' = "unset"
  /\ vm_info' = NoInfo
  /\ confirm' = NotAsked
  /\ UNCHANGED <<argv, subscription, generated, provider, creates, clock,
                 handle_states>>

RerunArgvs ==
  {[NoArgs EXCEPT !.interactive = TRUE],
   [NoArgs EXCEPT !.generate_config = TRUE],
   [NoArgs EXCEPT !.admin_password = Pw(MinPasswordLen)],
   [NoArgs EXCEPT !.admin_password = Pw(MinPasswordLen), !.dry_run = TRUE]}

InitRerun == Init /\ argv \in RerunArgvs /\ subscription

NextRerun == Next \/ Reinvoke

SpecRerun == InitRerun /\ [][NextRerun]_vars

\* ------------------------------- a provider whose handles are not all ready
\* the provisioning states a returned resource can be in
ProvisioningStates == {"Succeeded", "Failed", "Creating"}

\* the kinds the provider is let return unready: a network whose handle no
\* later step uses, and an interface the virtual machine refers to
UnreadyKinds == {"VirtualNetwork", "NetworkInterface"}

InitStates ==
  /\ argv \in RerunArgvs
  /\ subscription = TRUE
  /\ pc = "start"
  /\ config = default_config
  /\ output = {}
  /\ generated = FALSE
  /\ exit = "running"
  /\ clients = FALSE
  /\ provider \in {{}, {"ResourceGroup"}}
  /\ creates = [k \in KindSet |-> 0]
  /\ calls = <<>>
  /\ handles = NoHandles
  /\ result = "unset"
  /\ vm_info = NoInfo
  /\ clock = 1
  /\ runs = 1
  /\ handle_states \in
       {[k \in KindSet |-> IF k = unready THEN st ELSE "Succeeded"] :
          unready \in UnreadyKinds, st \in ProvisioningStates}
  /\ confirm = NotAsked

SpecStates == InitStates /\ [][Next]_vars

\* ------------------------------------------------ VMConfig.validate alone
LongName(n, ch) == [i \in 1..n |-> ch]

ValidateNames ==
  Names \cup {LongName(MaxVmNameLen, "a"), LongName(MaxVmNameLen + 1, "a"),
              LongName(MaxVmNameLen, "-"), <<"A", "-", "9", "_", "Z">>}

\* configurations validate can be called on: each required field present or
\* empty, with and without a password
ValidateConfigs ==
  {[default_config EXCEPT !.vm_name = n, !.resource_group = r, !.location = l,
                          !.admin_username = u, !.admin_password = pw] :
     n \in ValidateNames, r \in {"", "rg-azure-vm"}, l \in {"", "East US"},
     u \in {"", "azureuser"}, pw \in Passwords}

InitValidate ==
  /\ argv = NoArgs
  /\ subscription = TRUE
  /\ pc = "validate()"
  /\ config \in ValidateConfigs
  /\ output = {}
  /\ generated = FALSE
  /\ exit = "running"
  /\ clients = FALSE
  /\ provider = {}
  /\ creates = [k \in KindSet |-> 0]
  /\ calls = <<>>
  /\ handles = NoHandles
  /\ result = "unset"
  /\ vm_info = NoInfo
  /\ clock = 1
  /\ runs = 1
  /\ handle_states = [k \in KindSet |-> "Succeeded"]
  /\ confirm = NotAsked

\* one call of config.validate(): what it logs and what it returns
VMConfig_validate ==
  /\ pc = "validate()"
  /\ output' = output \cup
       {IF MissingField(config) # ""
        THEN Log("ERROR", "Campo requerido faltante", {MissingField(config)})
        ELSE IF ~VmNameOk(config.vm_name)
        THEN Log("ERROR", "Nombre de VM inválido", {})
        ELSE Log("INFO", "Configuración validada exitosamente", {})}
  /\ pc' = IF validate(config) THEN "True" ELSE "False"
  /\ UNCHANGED <<inputVars, walkVars, config, generated, exit>>

NextValidate == VMConfig_validate

SpecValidate == InitValidate /\ [][NextValidate]_vars

\* ------------------------------------------- long allowed_ssh_sources lists
\* the number of priorities from AllowPriorityBase up to DenyPriority - 1
AllowPriorities == DenyPriority - AllowPriorityBase

\* lengths of the allowed_ssh_sources list of the --config file
SourceCounts ==
  {0, 1, 2, AllowPriorities - 1, AllowPriorities, AllowPriorities + 1}

RulesArgvs ==
  {[NoArgs EXCEPT
      !.has_file = TRUE,
      !.file = [default_config EXCEPT
                  !.admin_password = Pw(MinPasswordLen),
                  !.ssh_port = p,
                  !.sources = [present |-> TRUE, list |-> [i \in 1..n |-> "10.0.0.0/8"]]]] :
     n \in SourceCounts, p \in Ports}

InitRules ==
  /\ argv \in RulesArgvs
  /\ subscription = TRUE
  /\ pc = "start"
  /\ config = default_config
  /\ output = {}
  /\ generated = FALSE
  /\ exit = "running"
  /\ clients = FALSE
  /\ provider = {"ResourceGroup"}
  /\ creates = [k \in KindSet |-> 0]
  /\ calls = <<>>
  /\ handles = NoHandles
  /\ result = "unset"
  /\ vm_info = NoInfo
  /\ clock = 1
  /\ runs = 1
  /\ handle_states = [k \in KindSet |-> "Succeeded"]
  /\ confirm = NotAsked

\* main when it is given a --config file
NextRules ==
  \/ main_cli
  \/ main_validate
  \/ AzureVMCreator_init
  \/ create_resource_group
  \/ create_virtual_network
  \/ create_subnet
  \/ create_public_ip
  \/ create_network_security_group
  \/ create_network_interface
  \/ create_virtual_machine
  \/ get_vm_info
  \/ main_report

SpecRules == InitRules /\ [][NextRules]_vars

\* ================================================================== claims
IsCreate(c) == c.op = "create_or_update"

CreateFailed(c) == IsCreate(c) /\ c.outcome \in Failures

\* the step returned a handle: a creation that succeeded, or the probe that
\* found the resource group
ReturnedHandle(c) ==
  \/ IsCreate(c) /\ c.outcome = "ok"
  \/ c.op = "get" /\ c.kind = "ResourceGroup" /\ c.outcome = "found"

KindIndex(kind) == CHOOSE i \in 1..Len(Kinds) : Kinds[i] = kind

\* VMConfig.validate turns the configuration down
FailsValidation(cfg) == MissingField(cfg) # "" \/ ~VmNameOk(cfg.vm_name)

\* C1: a configuration that fails validation never gets as far as a resource
\* client: no client is built, no get and no create_or_update is issued, and
\* main is at the validation or has ended.
C1_NoCallWhenValidationFails ==
  (pc # "start" /\ FailsValidation(config)) =>
    (calls = <<>> /\ ~clients /\ pc \in {"validate", "exit"})

C1_Witness ==
  /\ FailsValidation(config)
  /\ pc = "exit"
  /\ exit = "exit1"
  /\ Log("ERROR", "Configuración inválida", {}) \in output

\* C2: a creation call that failed is followed by no creation call in the
\* same run, whichever node it was for.
C2_FailedCreationAbortsWalk ==
  \A i \in 1..Len(calls) : \A j \in 1..Len(calls) :
    (i < j /\ CreateFailed(calls[i])) => ~IsCreate(calls[j])

C2_Witness ==
  /\ pc = "exit"
  /\ \E i \in 1..Len(calls) :
       CreateFailed(calls[i]) /\ calls[i].kind = "NetworkSecurityGroup"
  /\ \A i \in 1..Len(calls) :
       calls[i].kind \notin {"NetworkInterface", "VirtualMachine"}

\* the node whose creation raised an exception that create_complete_vm caught
FailedNodes ==
  {calls[i].kind : i \in {j \in 1..Len(calls) :
                            IsCreate(calls[j]) /\ calls[j].outcome \in {"AzureError", "Exception"}}}

ReturnedCalls == SelectSeq(calls, ReturnedHandle)

ReturnedKinds == [i \in 1..Len(ReturnedCalls) |-> ReturnedCalls[i].kind]

C4_NicAfterItsDependencies ==
  \A j \in 1..Len(calls) :
    (IsCreate(calls[j]) /\ calls[j].kind = "NetworkInterface") =>
      \A k \in {"Subnet", "PublicIP", "NetworkSecurityGroup"} :
        \E i \in 1..(j - 1) :
          IsCreate(calls[i]) /\ calls[i].kind = k /\ calls[i].outcome = "ok"

C4_Witness ==
  \E j \in 1..Len(calls) : IsCreate(calls[j]) /\ calls[j].kind = "NetworkInterface"

\* C5 as stated: a resource-group create_or_update is never issued for a
\* group the provider already holds, so the provider never accepts two.
C5_GroupCreatedAtMostOnce ==
  /\ \A i \in 1..Len(calls) :
       (IsCreate(calls[i]) /\ calls[i].kind = "ResourceGroup") => ~calls[i].existed
  /\ creates["ResourceGroup"] <= 1

\* int(s) of a string of decimal digits
DigitValue(ch) == CHOOSE d \in 0..9 : DigitChars[d + 1] = ch

RECURSIVE int(_)
int(s) ==
  IF Len(s) = 1 THEN DigitValue(s[1])
  ELSE 10 * int(SubSeq(s, 1, Len(s) - 1)) + DigitValue(s[Len(s)])

NsgCalls == {i \in 1..Len(calls) : IsCreate(calls[i]) /\ calls[i].kind = "NetworkSecurityGroup"}

IsAllowFor(rule, source, ssh_port, priority) ==
  /\ rule.access = "Allow"
  /\ rule.direction = "Inbound"
  /\ rule.protocol = "Tcp"
  /\ rule.source_address_prefix = source
  /\ rule.destination_port_range # <<"*">>
  /\ int(rule.destination_port_range) = ssh_port
  /\ rule.priority = priority

IsDenyAll(rule) ==
  /\ rule.access = "Deny"
  /\ rule.direction = "Inbound"
  /\ rule.protocol = "*"
  /\ rule.priority = 4096

\* C6: for a configured allowed_ssh_sources list of length n, the rule list
\* sent with the NetworkSecurityGroup has n + 1 entries: the i-th of the first
\* n (from 0) allows Tcp inbound from the i-th source to ssh_port at priority
\* 1000 + i, and the last one is the only Deny rule, at priority 4096.
C6_RulesFollowSources ==
  \A c \in NsgCalls :
    config.sources.present =>
      LET sources == config.sources.list
          n == Len(sources)
          rules == calls[c].rules
      IN /\ Len(rules) = n + 1
         /\ \A j \in 1..n : IsAllowFor(rules[j], sources[j], config.ssh_port, 1000 + (j - 1))
         /\ IsDenyAll(rules[n + 1])
         /\ \A j \in 1..n : rules[j].access # "Deny"

C6_Witness ==
  \E c \in NsgCalls :
    /\ config.sources.present
    /\ Len(config.sources.list) = 2
    /\ config.sources.list[1] # config.sources.list[2]
    /\ config.ssh_port # 22
    /\ calls[c].outcome = "ok"

\* C7 as stated: with an empty allowed_ssh_sources list the run is turned
\* down at validation, before any resource call.
C7_EmptySourcesRejected ==
  (pc # "start" /\ config.sources.present /\ config.sources.list = <<>>) =>
    (calls = <<>> /\ pc \in {"validate", "exit"})

\* C8 as stated: no log record and no console print shows the value of
\* admin_password.
C8_PasswordNeverShown ==
  \A r \in output : "admin_password" \notin r.fields

\* the tags of the configuration main built, before any creation call
SuppliedTags == LoadedConfig(argv).tags

\* C9: every creation call but the Subnet one carries the supplied tags and
\* the CreatedAt of the instant of that call; the Subnet call carries no tags.
C9_TagsOnEveryCreationButSubnet ==
  \A i \in 1..Len(calls) :
    IsCreate(calls[i]) =>
      IF calls[i].kind = "Subnet"
      THEN ~calls[i].tags.present
      ELSE /\ calls[i].tags.present
           /\ DOMAIN calls[i].tags.map = DOMAIN SuppliedTags.map \cup {"CreatedAt"}
           /\ \A k \in DOMAIN SuppliedTags.map \ {"CreatedAt"} :
                calls[i].tags.map[k] = SuppliedTags.map[k]
           /\ calls[i].tags.map["CreatedAt"] = isoformat(calls[i].at)

C9_Witness ==
  /\ pc = "exit"
  /\ result = "vm"
  /\ DOMAIN SuppliedTags.map # {}
  /\ \E i \in 1..Len(calls) : \E j \in 1..Len(calls) :
       /\ IsCreate(calls[i]) /\ calls[i].kind = "ResourceGroup"
       /\ IsCreate(calls[j]) /\ calls[j].kind = "VirtualMachine"
       /\ calls[i].at # calls[j].at
  /\ \E i \in 1..Len(calls) : IsCreate(calls[i]) /\ calls[i].kind = "Subnet"

\* C10 as stated: the creation calls leave the tags of the stored
\* configuration as main built them.
C10_ConfigTagsUnchanged ==
  pc # "start" => config.tags = SuppliedTags

\* every one of the seven steps returned a handle in this run
AllSevenReturned ==
  {ReturnedCalls[i].kind : i \in 1..Len(ReturnedCalls)} = KindSet

\* how the gets of get_vm_info ended
ReadBack(kind) ==
  {calls[i].outcome : i \in {j \in 1..Len(calls) :
                               calls[j].op = "get" /\ calls[j].kind = kind}}

\* C11: when the seven creation steps succeeded and the VM get or the
\* public-IP get of the read-back raised, create_complete_vm still returns
\* the VM and main ends with success.
C11_ReadBackFailureIsNotEscalated ==
  (/\ pc \in {"report", "exit"}
   /\ "Exception" \in ReadBack("VirtualMachine") \cup ReadBack("PublicIP")
   /\ AllSevenReturned) =>
    /\ result = "vm"
    /\ pc = "exit" => exit = "return"

C11_Witness ==
  /\ AllSevenReturned
  /\ "Exception" \in ReadBack("VirtualMachine")
  /\ pc = "exit"
  /\ exit = "return"

\* C12 as stated: in the summary public_ip is "unassigned" both when the
\* lookup failed and when no address is allocated yet, the other fields
\* being populated.
C12_OnePlaceholderUnassigned ==
  (pc \in {"report", "exit"}
     /\ ReadBack("PublicIP") \cap {"Exception", "pending"} # {}) =>
    (vm_info.filled /\ vm_info.public_ip = "unassigned")

\* C12 amended: the summary is populated and public_ip is "No asignada" when
\* the lookup raised and "Pendiente" when no address is allocated yet.
C12_TwoPlaceholders ==
  (pc \in {"report", "exit"} /\ ReadBack("PublicIP") # {}) =>
    /\ vm_info.filled
    /\ "Exception" \in ReadBack("PublicIP") => vm_info.public_ip = "No asignada"
    /\ "pending" \in ReadBack("PublicIP") => vm_info.public_ip = "Pendiente"
    /\ "allocated" \in ReadBack("PublicIP") =>
         vm_info.public_ip \notin {"No asignada", "Pendiente"}

C12_Witness ==
  /\ pc = "exit"
  /\ "pending" \in ReadBack("PublicIP")
  /\ vm_info.filled
  /\ vm_info.public_ip = "Pendiente"

\* C13: what create_complete_vm returns is the VM exactly when the seven
\* steps succeeded and None otherwise; main ends with success for the VM and
\* with exit code 1 in every other case that got as far as the clients.
C13_SuccessIffAllSeven ==
  /\ result # "unset" => (result = "vm" <=> AllSevenReturned)
  /\ result # "unset" => result \in {"vm", "None"}
  /\ (pc = "exit" /\ result = "vm") => exit = "return"
  /\ (pc = "exit" /\ clients /\ result # "vm") => exit = "exit1"

C13_Witness ==
  /\ pc = "exit"
  /\ result = "None"
  /\ exit = "exit1"
  /\ \E i \in 1..Len(calls) :
       CreateFailed(calls[i]) /\ calls[i].kind = "VirtualMachine"

\* C14: an exception raised by a creation step is caught in
\* create_complete_vm, which returns None to main: it never arrives at the
\* except clause of main.
C14_FailureNeverEscapes ==
  FailedNodes # {} =>
    /\ pc \in {"report", "exit"}
    /\ result = "None"
    /\ \A r \in output : r.msg # "Error inesperado"

C14_Witness ==
  /\ pc = "report"
  /\ result = "None"
  /\ \E i \in 1..Len(calls) :
       IsCreate(calls[i]) /\ calls[i].kind = "ResourceGroup"
         /\ calls[i].outcome = "Exception"

\* the creation call returned a resource that is not provisioned
ReturnedUnready(c) ==
  IsCreate(c) /\ c.outcome = "ok" /\ c.provisioning_state # "Succeeded"

\* C15: a creation call that returned a handle whose provisioning state is
\* failed or non-terminal is followed by no creation call in the same run, and
\* the run does not return the VM.
C15_UnreadyHandleAbortsWalk ==
  /\ \A i \in 1..Len(calls) : \A j \in 1..Len(calls) :
       (i < j /\ ReturnedUnready(calls[i])) => ~IsCreate(calls[j])
  /\ (\E i \in 1..Len(calls) : ReturnedUnready(calls[i])) => result # "vm"

\* validate has returned
Validated == pc \in {"True", "False"}

\* C16: validate returns False for every configuration in which one of
\* vm_name, resource_group, location, admin_username, admin_password is
\* missing or empty.
C16_FiveRequiredFields ==
  (Validated /\ (MissingField(config) # "" \/ config.admin_password = <<>>)) =>
    pc = "False"

\* C17: a configuration whose admin_password has fewer than 8 characters
\* reaches no resource client, whichever way the password came in.
C17_ShortPasswordRejected ==
  (pc # "start" /\ Len(config.admin_password) < MinPasswordLen) =>
    (calls = <<>> /\ ~clients)

\* ^[A-Za-z0-9_-]{1,64}$
MatchesNamePattern(vm_name) ==
  /\ 1 <= Len(vm_name)
  /\ Len(vm_name) <= MaxVmNameLen
  /\ \A i \in 1..Len(vm_name) :
       vm_name[i] \in AsciiLetters \cup AsciiDigits \cup {"-", "_"}

\* C18: with the other required fields present, validate returns True
\* exactly for the names that match ^[A-Za-z0-9_-]{1,64}$.
C18_NameAcceptedIffPattern ==
  (Validated /\ config.resource_group # "" /\ config.location # ""
     /\ config.admin_username # "") =>
    (pc = "True" <=> MatchesNamePattern(config.vm_name))

\* C19: a resource-group probe that failed for another reason than
\* not-found is followed by no resource-group creation and makes the run
\* fail; a creation follows a not-found only.
C19_ProbeErrorPropagated ==
  /\ \A i \in 1..Len(calls) :
       (calls[i].op = "get" /\ calls[i].kind = "ResourceGroup"
          /\ calls[i].outcome = "HttpResponseError") =>
         /\ \A j \in 1..Len(calls) :
              ~(IsCreate(calls[j]) /\ calls[j].kind = "ResourceGroup")
         /\ result # "vm"
  /\ \A j \in 1..Len(calls) :
       (IsCreate(calls[j]) /\ calls[j].kind = "ResourceGroup") =>
         \E i \in 1..(j - 1) :
           /\ calls[i].op = "get" /\ calls[i].kind = "ResourceGroup"
           /\ calls[i].outcome = "ResourceNotFoundError"

\* C20: the only operations issued are get and create_or_update, and every
\* resource a creation call of the run returned is still held by the
\* provider, also after a later step failed.
C20_NoRollback ==
  /\ \A i \in 1..Len(calls) : calls[i].op \in {"get", "create_or_update"}
  /\ \A i \in 1..Len(calls) :
       (IsCreate(calls[i]) /\ calls[i].outcome = "ok") => calls[i].kind \in provider

C20_Witness ==
  /\ pc = "exit"
  /\ result = "None"
  /\ \E i \in 1..Len(calls) :
       CreateFailed(calls[i]) /\ calls[i].kind = "NetworkSecurityGroup"
  /\ creates["PublicIP"] = 1
  /\ {"ResourceGroup", "VirtualNetwork", "Subnet", "PublicIP"} \subseteq provider

\* C21: a run that returns the VM leaves the provider holding the seven
\* kinds under the configured names, also when it is the second run of the
\* same command line after a first run that failed, whichever node that was.
C21_RerunCompletesTheSet ==
  result = "vm" => provider = KindSet

\* the second run completed after a first run that created the network and
\* failed before the virtual machine
C21_Witness ==
  /\ runs = 2
  /\ pc = "exit"
  /\ result = "vm"
  /\ creates["VirtualNetwork"] = 2
  /\ creates["VirtualMachine"] = 1
  /\ provider = KindSet

\* how many creation calls of the run were for the kind
CreateCalls(kind) ==
  Cardinality({i \in 1..Len(calls) : IsCreate(calls[i]) /\ calls[i].kind = kind})

\* the resource-group step returned and create_virtual_network has run
PastStep2 ==
  /\ pc # "VirtualNetwork"
  /\ \E i \in 1..Len(calls) :
       ReturnedHandle(calls[i]) /\ calls[i].kind = "ResourceGroup"

\* C25: no get is ever issued for the virtual network, and a run that has
\* gone through step 2 has issued exactly one create_or_update for it,
\* whether or not the provider already held the network.
C25_NetworkAlwaysApplied ==
  /\ \A i \in 1..Len(calls) :
       ~(calls[i].op = "get" /\ calls[i].kind = "VirtualNetwork")
  /\ CreateCalls("VirtualNetwork") <= 1
  /\ PastStep2 => CreateCalls("VirtualNetwork") = 1

\* the second run applies the network the first run created
C25_Witness ==
  /\ runs = 2
  /\ PastStep2
  /\ \E i \in 1..Len(calls) :
       /\ IsCreate(calls[i]) /\ calls[i].kind = "VirtualNetwork"
       /\ calls[i].existed
       /\ calls[i].outcome = "ok"

\* how a call that is over can have ended
Terminal ==
  {"ok", "found", "ResourceNotFoundError", "HttpResponseError", "allocated",
   "pending"} \cup Failures

\* C22: no operation is left running: every call in the log of a run has
\* ended, with a result or with an exception, so a creation call is issued
\* only when all earlier calls are over and all earlier creations returned.
C22_OneOperationAtATime ==
  /\ \A i \in 1..Len(calls) : calls[i].outcome \in Terminal
  /\ LET created == SelectSeq(calls, IsCreate)
     IN \A i \in 1..(Len(created) - 1) : created[i].outcome = "ok"

C22_Witness ==
  /\ pc = "report"
  /\ result = "vm"
  /\ \A k \in KindSet \ {"ResourceGroup"} : CreateCalls(k) = 1

\* the kinds of the steps that returned before the j-th call, in order
ReturnedBefore(j) ==
  LET earlier == SelectSeq(SubSeq(calls, 1, j - 1), ReturnedHandle)
  IN [i \in 1..Len(earlier) |-> earlier[i].kind]

\* C23: the creation calls of a run are issued in the order of Kinds, each
\* kind at most once, and a creation call for a kind is issued only after
\* the steps of all the kinds before it have returned: at each creation call
\* the steps that returned are the kinds before it, in the order of Kinds.
C23_FixedTotalOrder ==
  \A j \in 1..Len(calls) :
    IsCreate(calls[j]) =>
      LET done == ReturnedBefore(j)
      IN /\ Len(done) < Len(Kinds)
         /\ done = SubSeq(Kinds, 1, Len(done))
         /\ calls[j].kind = Kinds[Len(done) + 1]

C23_Witness ==
  /\ pc = "info"
  /\ ReturnedKinds = Kinds

\* C24: the NetworkInterface creation call carries the ids the Subnet,
\* PublicIP and NetworkSecurityGroup steps returned, each in its own place,
\* and the VirtualMachine creation call carries the id the NetworkInterface
\* step returned.
C24_IdsThreadedForward ==
  \A j \in 1..Len(calls) :
    /\ (IsCreate(calls[j]) /\ calls[j].kind = "NetworkInterface") =>
         /\ calls[j].refs = [subnet |-> ResourceId("Subnet"),
                             public_ip |-> ResourceId("PublicIP"),
                             nsg |-> ResourceId("NetworkSecurityGroup"),
                             nic |-> <<>>]
         /\ calls[j].refs.subnet = handles["Subnet"]
         /\ calls[j].refs.public_ip = handles["PublicIP"]
         /\ calls[j].refs.nsg = handles["NetworkSecurityGroup"]
    /\ (IsCreate(calls[j]) /\ calls[j].kind = "VirtualMachine") =>
         /\ calls[j].refs = [NoRefs EXCEPT !.nic = ResourceId("NetworkInterface")]
         /\ calls[j].refs.nic = handles["NetworkInterface"]

C24_Witness ==
  \E j \in 1..Len(calls) :
    /\ IsCreate(calls[j]) /\ calls[j].kind = "VirtualMachine"
    /\ calls[j].outcome = "ok"
    /\ calls[j].refs.nic = ResourceId("NetworkInterface")

\* C26: a call that was interrupted by the user is followed by no creation
\* call, whichever call it was, and the run does not go on to return a VM.
C26_InterruptStopsTheRun ==
  \A i \in 1..Len(calls) :
    calls[i].outcome = "KeyboardInterrupt" =>
      /\ \A j \in 1..Len(calls) : i < j => ~IsCreate(calls[j])
      /\ result # "vm"

\* main has got as far as the creator
AtCreator ==
  clients \/ calls # <<>> \/ pc \in {"construct", "info", "report"} \cup KindSet

\* C27: whenever main has got as far as the creator, admin_password is not
\* empty, on the menu paths and on the command-line paths, and the password
\* sent with the virtual machine is that one; the required fields validate
\* looks for are the same with and without it.
C27_PasswordSetBeforeFirstCall ==
  /\ AtCreator => config.admin_password # <<>>
  /\ \A i \in 1..Len(calls) :
       (IsCreate(calls[i]) /\ calls[i].kind = "VirtualMachine") =>
         (calls[i].secret # <<>> /\ calls[i].secret = config.admin_password)
  /\ MissingField([config EXCEPT !.admin_password = <<>>]) = MissingField(config)

C27_Witness ==
  /\ argv.interactive
  /\ config.vm_name = DefaultVmName
  /\ \E i \in 1..Len(calls) :
       /\ IsCreate(calls[i]) /\ calls[i].kind = "VirtualMachine"
       /\ Len(calls[i].secret) = MinPasswordLen - 1

\* C28: in the menu mode main gets as far as the creator only after the
\* answer s, si, sí, y or yes to its confirmation prompt; after any other
\* answer the program has ended with exit code 0, no client, no call and
\* nothing created.
C28_NothingWithoutConfirmation ==
  /\ (argv.interactive /\ AtCreator) => confirm \in {"s", "si", "sí", "y", "yes"}
  /\ (confirm # NotAsked /\ confirm \notin {"s", "si", "sí", "y", "yes"}) =>
       /\ pc = "exit"
       /\ exit = "exit0"
       /\ ~clients
       /\ calls = <<>>
       /\ \A k \in KindSet : creates[k] = 0

C28_Witness ==
  /\ argv.interactive
  /\ confirm = "s"
  /\ clients
  /\ \E i \in 1..Len(calls) : IsCreate(calls[i]) /\ calls[i].outcome = "ok"

\* the provider has not been touched
Untouched == ~clients /\ calls = <<>> /\ \A k \in KindSet : creates[k] = 0

MenuDryRun == Log("INFO", "MODO DRY-RUN - Configuración por defecto", {}) \in output

\* C29 as stated: a run in which --dry-run, --generate-config, menu option 4
\* or menu option 3 was taken ends without a client and without a call.
C29_NonCreatingModesReturn ==
  (\/ ~argv.interactive /\ (argv.dry_run \/ argv.generate_config)
   \/ MenuDryRun
   \/ argv.interactive /\ generated) => Untouched

\* C29 amended: --dry-run, --generate-config and menu option 4 end the run
\* with the provider untouched; menu option 3 writes the file and leaves main
\* in the menu with the provider untouched, from where the user may still
\* choose to create.
C29_NonCreatingModes ==
  /\ (~argv.interactive /\ (argv.dry_run \/ argv.generate_config)) => Untouched
  /\ MenuDryRun => (Untouched /\ pc = "exit" /\ exit = "return")
  /\ (argv.interactive /\ generated /\ pc = "start") => Untouched
  /\ (~argv.interactive /\ generated) => (pc = "exit" /\ exit = "return")

C29_Witness ==
  /\ MenuDryRun
  /\ generated
  /\ pc = "exit"
  /\ Untouched

\* C30: in the rule list sent with the NetworkSecurityGroup no two rules
\* have the same priority and every Allow rule has a priority below that of
\* the deny-all rule, however long allowed_ssh_sources is.
C30_PrioritiesDistinctBelowDeny ==
  \A c \in NsgCalls :
    LET rules == calls[c].rules
    IN /\ Cardinality({rules[i].priority : i \in 1..Len(rules)}) = Len(rules)
       /\ \A i \in 1..Len(rules) :
            rules[i].access = "Allow" => rules[i].priority < DenyPriority

====
